---------------------------- MODULE Spec2Model ----------------------------
(***************************************************************************)
(* A model of conan/tools/google/bazeldeps.py: BazelDeps.generate() and    *)
(* the helpers it calls.                                                   *)
(*                                                                         *)
(* Strings are sequences of one-character strings, so that prefix tests,   *)
(* slicing, replace, lstrip, splitext and path joins are computed the way  *)
(* Python computes them.  None is the empty tuple and a present value v is *)
(* the one-element tuple <<v>>.                                            *)
(***************************************************************************)
EXTENDS Naturals, Sequences, FiniteSets, TLC

VARIABLES
    system,               \* platform.system() of the machine running the generator
    generators_folder,    \* self._conanfile.generators_folder
    files,                \* the disk: directory -> set of file names in it
    direct_build,         \* dependencies.direct_build.values() iterated so far
    host,                 \* dependencies.host.values() iterated so far
    pc,                   \* position in generate(): "build", "host", "done", "raised"
    local_repositories,   \* the list generate() accumulates
    written,              \* every save(), in order: [path, content]
    warnings,             \* every output.warning(), in order
    err                   \* the exception generate() ended with, or "none"

vars == <<system, generators_folder, files, direct_build, host, pc,
          local_repositories, written, warnings, err>>

---------------------------------------------------------------------------
(* Bounds of the model: how many dependencies each of the two loops of     *)
(* generate() may iterate over.                                            *)
MaxBuild == 1
MaxHost == 2

---------------------------------------------------------------------------
(* Python values *)

None == <<>>
Some(v) == <<v>>
IsNone(o) == o = <<>>
Value(o) == o[1]

\* str.startswith(prefix)
StartsWith(s, prefix) ==
    /\ Len(prefix) <= Len(s)
    /\ SubSeq(s, 1, Len(prefix)) = prefix

\* s[n:]
SliceFrom(s, n) == SubSeq(s, n + 1, Len(s))

\* s.replace("\\", "/")
ReplaceBackslash(s) == [i \in 1..Len(s) |-> IF s[i] = "\\" THEN "/" ELSE s[i]]

\* s.lstrip("/")
LStripSlash(s) ==
    LET lead == {i \in 0..Len(s) : \A j \in 1..i : s[j] = "/"}
        n == CHOOSE i \in lead : \A k \in lead : k <= i
    IN  SliceFrom(s, n)

\* s.rfind(c), 1-based; 0 when c does not occur
RFind(s, c) ==
    LET at == {i \in 1..Len(s) : s[i] = c}
    IN  IF at = {} THEN 0 ELSE CHOOSE i \in at : \A k \in at : k <= i

\* os.path.splitext of a directory entry (no separator in it): the extension
\* starts at the last dot, unless only dots precede that dot.
SplitExt(f) ==
    LET dot == RFind(f, ".")
    IN  IF dot > 0 /\ \E k \in 1..(dot - 1) : f[k] # "."
        THEN [name |-> SubSeq(f, 1, dot - 1), ext |-> SubSeq(f, dot, Len(f))]
        ELSE [name |-> f, ext |-> <<>>]

\* os.path.join(a, b) for a relative b: posixpath on Linux, ntpath on Windows
PathJoin(sys, a, b) ==
    IF a = <<>> THEN b
    ELSE IF sys = "Windows"
         THEN IF a[Len(a)] \in {"/", "\\", ":"} THEN a \o b ELSE a \o <<"\\">> \o b
         ELSE IF a[Len(a)] = "/" THEN a \o b ELSE a \o <<"/">> \o b

---------------------------------------------------------------------------
(* The library file locator *)

LibraryExtensions ==
    { <<".", "s", "o">>, <<".", "l", "i", "b">>, <<".", "a">>,
      <<".", "d", "y", "l", "i", "b">>, <<".", "b", "c">> }

LibPrefix == <<"l", "i", "b">>

\* The name the loop body compares with lib, for directory entry f
MatchName(f) ==
    LET s == SplitExt(f)
    IN  IF /\ s.ext \in LibraryExtensions
           /\ s.ext # <<".", "l", "i", "b">>
           /\ StartsWith(s.name, LibPrefix)
        THEN SliceFrom(s.name, 3)
        ELSE s.name

\* The inner loop over os.listdir(libdir): the first entry whose name matches
FirstMatch(listing, lib) ==
    LET hits == {i \in 1..Len(listing) : MatchName(listing[i]) = lib}
    IN  IF hits = {} THEN None
        ELSE Some(listing[CHOOSE i \in hits : \A k \in hits : i <= k])

NoFolderWarning(libdir) == [warning |-> "The library folder doesn't exist", about |-> libdir]
NotFoundWarning(lib) == [warning |-> "The library cannot be found in the dependency", about |-> lib]

\* The end of _get_lib_file_paths: no directory held the library
NotFound(lib) == [path |-> None, warned |-> <<NotFoundWarning(lib)>>]

\* SkipMissing with the scan given up at the missing directory (a return in
\* place of the continue)
SkipMissing_GivesUp(libdir, rest) ==
    [path |-> None, warned |-> <<NoFolderWarning(libdir)>>]

\* A missing directory: the warning, then the scan of the directories after it
SkipMissing(libdir, rest) ==
    [path |-> rest.path, warned |-> <<NoFolderWarning(libdir)>> \o rest.warned]

\* An existing directory: the path of its first matching entry, or else the
\* scan of the directories after it
ScanDirectory(sys, libdir, hit, rest) ==
    IF ~IsNone(hit)
    THEN [path |-> Some(PathJoin(sys, libdir, Value(hit))), warned |-> <<>>]
    ELSE rest

\* _get_lib_file_paths(libdirs, lib) from directory number i on.  disk is the
\* set of files of each existing directory, order the order in which
\* os.listdir returns them.  The result is the returned path (or None) and
\* the warnings issued.
RECURSIVE LibScan(_, _, _, _, _, _)
LibScan(sys, disk, order, libdirs, lib, i) ==
    IF i > Len(libdirs)
    THEN NotFound(lib)
    ELSE IF libdirs[i] \notin DOMAIN disk
         THEN SkipMissing(libdirs[i], LibScan(sys, disk, order, libdirs, lib, i + 1))
         ELSE ScanDirectory(sys, libdirs[i], FirstMatch(order[libdirs[i]], lib),
                            LibScan(sys, disk, order, libdirs, lib, i + 1))

GetLibFilePaths(sys, disk, order, libdirs, lib) ==
    LibScan(sys, disk, order, libdirs, lib, 1)

---------------------------------------------------------------------------
(* Relative paths *)

\* _relativize_path(p, base_path) for a base_path that is a string
RelativizePath(p, base_path) ==
    IF StartsWith(p, base_path)
    THEN LStripSlash(ReplaceBackslash(SliceFrom(p, Len(base_path))))
    ELSE LStripSlash(ReplaceBackslash(p))

---------------------------------------------------------------------------
(* Rendering *)

S_BUILD == <<"/", "B", "U", "I", "L", "D">>
S_precompiled == <<"_", "p", "r", "e", "c", "o", "m", "p", "i", "l", "e", "d">>
S_binaries == <<"_", "b", "i", "n", "a", "r", "i", "e", "s">>
S_glob == <<"/", "*", "*">>
S_defaultlib == <<"/", "D", "E", "F", "A", "U", "L", "T", "L", "I", "B", ":">>
S_l == <<"-", "l">>

\* d[k] = v on a dict kept as the sequence of its (key, value) pairs in
\* insertion order
DictPut(d, k, v) ==
    IF \E i \in 1..Len(d) : d[i][1] = k
    THEN [i \in 1..Len(d) |-> IF d[i][1] = k THEN <<k, v>> ELSE d[i]]
    ELSE Append(d, <<k, v>>)

\* _get_build_dependency_buildfile_content: the filegroup rule
GetBuildDependencyBuildfileContent(dependency) ==
    [rule |-> "filegroup", name |-> dependency.name \o S_binaries]

\* The loop over cpp_info.libs that fills the dict libs, from lib number i on.
\* A resolved path is relativized against package_folder, which raises
\* TypeError when package_folder is None.
RECURSIVE LibsLoop(_, _, _, _, _, _, _)
RECURSIVE LibsStep(_, _, _, _, _, _, _, _)
LibsLoop(dependency, sys, disk, order, i, libs, warned) ==
    IF i > Len(dependency.libs)
    THEN [raised |-> FALSE, libs |-> libs, warned |-> warned]
    ELSE LibsStep(dependency, sys, disk, order, i, libs, warned,
                  GetLibFilePaths(sys, disk, order, dependency.libdirs,
                                  dependency.libs[i]))

\* The body of that loop for lib number i, real_path being found.path
LibsStep(dependency, sys, disk, order, i, libs, warned, found) ==
    IF IsNone(found.path)
    THEN LibsLoop(dependency, sys, disk, order, i + 1, libs, warned \o found.warned)
    ELSE IF IsNone(dependency.package_folder)
         THEN [raised |-> TRUE, libs |-> libs, warned |-> warned \o found.warned]
         ELSE LibsLoop(dependency, sys, disk, order, i + 1,
                       DictPut(libs, dependency.libs[i],
                               RelativizePath(Value(found.path),
                                              Value(dependency.package_folder))),
                       warned \o found.warned)

\* The "deps" attribute of the cc_library rule as the template renders it
\* (the empty tuple: the attribute is not rendered)
RenderDeps(libs, dependencies) ==
    IF libs # <<>>
    THEN [i \in 1..Len(libs) |-> <<":">> \o libs[i][1] \o S_precompiled]
         \o [i \in 1..Len(dependencies) |-> <<"@">> \o dependencies[i]]
    ELSE <<>>

\* The linkopts list: one entry per system library, spelled for the platform
\* the generator runs on
RenderLinkopts(sys, system_libs) ==
    [i \in 1..Len(system_libs) |->
        IF sys = "Windows" THEN S_defaultlib \o system_libs[i]
                           ELSE S_l \o system_libs[i]]

\* The include directories relative to package_folder
RelativeIncludes(dependency) ==
    [i \in 1..Len(dependency.includedirs) |->
        RelativizePath(dependency.includedirs[i], Value(dependency.package_folder))]

LibraryType(dependency) ==
    IF dependency.shared = "True" THEN "shared_library" ELSE "static_library"

\* The rendered template: the cc_import rules and the cc_library rule
\* (the defines attribute, a quoting of cpp_info.defines that reads nothing
\* else, is left out)
RenderTemplate(dependency, sys, libs) ==
    [rule |-> "cc_library",
     cc_import |-> [i \in 1..Len(libs) |->
                       [name |-> libs[i][1] \o S_precompiled,
                        attr |-> LibraryType(dependency),
                        file |-> libs[i][2]]],
     name |-> dependency.name,
     hdrs |-> [i \in 1..Len(dependency.includedirs) |->
                  RelativeIncludes(dependency)[i] \o S_glob],
     includes |-> RelativeIncludes(dependency),
     linkopts |-> RenderLinkopts(sys, dependency.system_libs),
     deps |-> RenderDeps(libs, dependency.requires)]

\* The end of _get_dependency_buildfile_content, scan being the outcome of the
\* loop over cpp_info.libs
RenderScanned(dependency, sys, scan) ==
    IF scan.raised
    THEN [result |-> "TypeError", content |-> <<>>, warned |-> scan.warned]
    ELSE [result |-> "content",
          content |-> RenderTemplate(dependency, sys, scan.libs),
          warned |-> scan.warned]

\* GetDependencyBuildfileContent with the early return taken for every package
\* without libs (the includedirs not looked at)
GetDependencyBuildfileContent_LibsOnly(dependency, sys, disk, order) ==
    IF dependency.libs = <<>>
    THEN [result |-> "None", content |-> <<>>, warned |-> <<>>]
    ELSE IF dependency.includedirs # <<>> /\ IsNone(dependency.package_folder)
    THEN [result |-> "TypeError", content |-> <<>>, warned |-> <<>>]
    ELSE RenderScanned(dependency, sys, LibsLoop(dependency, sys, disk, order, 1, <<>>, <<>>))

\* _get_dependency_buildfile_content(dependency): result is "None" (nothing to
\* render), "TypeError" (raised) or "content"
GetDependencyBuildfileContent(dependency, sys, disk, order) ==
    IF dependency.libs = <<>> /\ dependency.includedirs = <<>>
    THEN [result |-> "None", content |-> <<>>, warned |-> <<>>]
    ELSE IF dependency.includedirs # <<>> /\ IsNone(dependency.package_folder)
    THEN [result |-> "TypeError", content |-> <<>>, warned |-> <<>>]
    ELSE RenderScanned(dependency, sys, LibsLoop(dependency, sys, disk, order, 1, <<>>, <<>>))

\* '{}/{}/BUILD'.format(conandeps, dependency.ref.name)
DependencyBuildfileName(conandeps, dependency) ==
    conandeps \o <<"/">> \o dependency.name \o S_BUILD

\* SaveDependencyBuildfile with the save left out: the name is returned, the
\* file is not written
SaveDependencyBuildfile_NoSave(log, dependency, buildfile_content, conandeps) ==
    [written |-> log, filename |-> DependencyBuildfileName(conandeps, dependency)]

\* _save_dependency_buildfile: the disk writes after the save, and the
\* file name returned
SaveDependencyBuildfile(log, dependency, buildfile_content, conandeps) ==
    [written |-> Append(log, [path |-> DependencyBuildfileName(conandeps, dependency),
                              content |-> buildfile_content]),
     filename |-> DependencyBuildfileName(conandeps, dependency)]

\* _create_new_local_repository: raises for an editable package, otherwise
\* the registration snippet
CreateNewLocalRepository(dependency, dependency_buildfile_name) ==
    IF IsNone(dependency.package_folder)
    THEN [raised |-> TRUE, snippet |-> <<>>]
    ELSE [raised |-> FALSE,
          snippet |-> [stmt |-> "native.new_local_repository",
                       name |-> dependency.name,
                       path |-> ReplaceBackslash(Value(dependency.package_folder)),
                       build_file |-> ReplaceBackslash(dependency_buildfile_name)]]

PassStatement == [stmt |-> "pass"]

\* GetMainBuildfileContent with the snippets joined from the second one on
GetMainBuildfileContent_DropsFirst(repositories) ==
    [rule |-> "def load_conan_dependencies",
     body |-> IF Len(repositories) > 1 THEN Tail(repositories) ELSE <<PassStatement>>]

\* _get_main_buildfile_content: the statements of load_conan_dependencies()
GetMainBuildfileContent(repositories) ==
    [rule |-> "def load_conan_dependencies",
     body |-> IF repositories # <<>> THEN repositories ELSE <<PassStatement>>]

MainBuildName(folder) == folder \o S_BUILD
MainBzlName(folder) ==
    folder \o <<"/", "d", "e", "p", "e", "n", "d", "e", "n", "c", "i", "e", "s",
                ".", "b", "z", "l">>

\* _save_main_buildfiles: the empty BUILD, then dependencies.bzl
SaveMainBuildfiles(log, content, folder) ==
    log \o << [path |-> MainBuildName(folder), content |-> [rule |-> "empty"]],
              [path |-> MainBzlName(folder), content |-> content] >>

---------------------------------------------------------------------------
(* The inputs: the machine, the disk and the packages of the graph *)

N_zl == <<"z", "l">>
N_pb == <<"p", "b">>
N_xz == <<"x", "z">>
L_z == <<"z">>
L_m == <<"m">>

PkgZ == <<"/", "p", "/", "a">>
PkgP == <<"c", ":", "\\", "p", "\\", "b">>
IncZ == PkgZ \o <<"/", "i">>
IncP == PkgP \o <<"\\", "i">>
PkgX == <<"/", "p", "/", "x">>
IncX == PkgX \o <<"/", "i", "/">>
IncSibling == <<"/", "p", "/", "a", "b", "/", "i">>
LibDirZ == PkgZ \o <<"/", "l">>
MissingDirZ == PkgZ \o <<"/", "m">>

F_libz_a == <<"l", "i", "b", "z", ".", "a">>
F_libz_so == <<"l", "i", "b", "z", ".", "s", "o">>
F_z_txt == <<"z", ".", "t", "x", "t">>

\* The machines the generator runs on: platform.system() and generators_folder
Machines ==
    { [system |-> "Linux", generators_folder |-> <<"/", "g">>],
      [system |-> "Windows", generators_folder |-> <<"c", ":", "\\", "g">>] }

\* The disks: LibDirZ exists and holds one of these sets of files; no other
\* library directory exists
Disks ==
    { [d \in {LibDirZ} |-> fs] :
        fs \in { {}, {F_libz_a}, {F_libz_a, F_libz_so}, {F_z_txt} } }

\* The orders in which os.listdir may return the files of each directory
Orders(disk) ==
    { o \in [DOMAIN disk -> UNION { [1..Cardinality(disk[d]) -> disk[d]] : d \in DOMAIN disk }] :
        \A d \in DOMAIN disk :
            /\ Len(o[d]) = Cardinality(disk[d])
            /\ \A f \in disk[d] : \E i \in 1..Len(o[d]) : o[d][i] = f }

Dependency(name, package_folder, includedirs, libs, libdirs, system_libs, shared, requires) ==
    [name |-> name, package_folder |-> package_folder, includedirs |-> includedirs,
     libs |-> libs, libdirs |-> libdirs, system_libs |-> system_libs,
     shared |-> shared, requires |-> requires]

\* The packages dependencies.direct_build may hold (the generator reads only
\* their name and package_folder)
BuildDependencies ==
    { Dependency(N_zl, Some(PkgZ), <<>>, <<>>, <<>>, <<>>, "unset", <<>>),
      Dependency(N_pb, Some(PkgP), <<>>, <<>>, <<>>, <<>>, "unset", <<>>),
      Dependency(N_zl, None, <<>>, <<>>, <<>>, <<>>, "unset", <<>>) }

\* The packages dependencies.host may hold: zl installed (empty, header-only,
\* with headers in a sibling folder, with a library), zl editable (the same
\* without a package_folder), the header-only pb that requires zl, and the
\* header-only xz
HostDependencies ==
    { Dependency(N_zl, Some(PkgZ), <<>>, <<>>, <<>>, <<>>, "unset", <<>>),
      Dependency(N_zl, Some(PkgZ), <<IncZ>>, <<>>, <<>>, <<>>, "unset", <<>>),
      Dependency(N_zl, Some(PkgZ), <<IncSibling>>, <<>>, <<>>, <<>>, "unset", <<>>),
      Dependency(N_zl, Some(PkgZ), <<IncZ>>, <<L_z>>, <<MissingDirZ, LibDirZ>>,
                 <<L_m>>, "False", <<N_pb>>),
      Dependency(N_zl, None, <<>>, <<>>, <<>>, <<>>, "unset", <<>>),
      Dependency(N_zl, None, <<IncZ>>, <<>>, <<>>, <<>>, "unset", <<>>),
      Dependency(N_zl, None, <<>>, <<L_z>>, <<MissingDirZ, LibDirZ>>,
                 <<>>, "True", <<>>),
      Dependency(N_pb, Some(PkgP), <<IncP>>, <<>>, <<>>, <<>>, "unset", <<N_zl>>),
      Dependency(N_xz, Some(PkgX), <<IncX>>, <<>>, <<>>, <<>>, "unset", <<>>) }

\* The names of the packages iterated so far.  Each of the two dependency
\* sets holds a package name at most once; the same name may be in both.
NamesOf(dependencies) == {dependencies[i].name : i \in 1..Len(dependencies)}

---------------------------------------------------------------------------
(* generate() *)

Init ==
    /\ \E m \in Machines :
        /\ system = m.system
        /\ generators_folder = m.generators_folder
    /\ files \in Disks
    /\ direct_build = <<>>
    /\ host = <<>>
    /\ pc = "build"
    /\ local_repositories = <<>>
    /\ written = <<>>
    /\ warnings = <<>>
    /\ err = "none"

\* The end of an iteration of either loop: the local repository is created
\* from the saved file's name and appended, unless creating it raises
Register(repo, position) ==
    IF repo.raised
    THEN /\ pc' = "raised"
         /\ err' = "ConanException"
         /\ UNCHANGED local_repositories
    ELSE /\ pc' = position
         /\ local_repositories' = Append(local_repositories, repo.snippet)
         /\ UNCHANGED err

\* The iteration from its save on
SaveAndRegister(dependency, saved, position) ==
    /\ written' = saved.written
    /\ Register(CreateNewLocalRepository(dependency, saved.filename), position)

\* One iteration of the loop over dependencies.direct_build
ProcessBuildDependency(build_dependency) ==
    /\ pc = "build"
    /\ Len(direct_build) < MaxBuild
    /\ build_dependency.name \notin NamesOf(direct_build)
    /\ direct_build' = Append(direct_build, build_dependency)
    /\ SaveAndRegister(build_dependency,
                       SaveDependencyBuildfile(
                           written, build_dependency,
                           GetBuildDependencyBuildfileContent(build_dependency),
                           generators_folder),
                       "build")
    /\ UNCHANGED <<system, generators_folder, files, host, warnings>>

\* The body of the loop over dependencies.host, got being what
\* _get_dependency_buildfile_content returned or raised
HostIteration(dependency, got) ==
    /\ warnings' = warnings \o got.warned
    /\ IF got.result = "TypeError"
       THEN /\ pc' = "raised"
            /\ err' = "TypeError"
            /\ UNCHANGED <<written, local_repositories>>
       ELSE IF got.result = "None"
       THEN /\ pc' = "host"
            /\ UNCHANGED <<written, local_repositories, err>>
       ELSE SaveAndRegister(dependency,
                            SaveDependencyBuildfile(written, dependency, got.content,
                                                    generators_folder),
                            "host")

\* One iteration of the loop over dependencies.host, which starts when the
\* loop over dependencies.direct_build has ended; order is the order in which
\* os.listdir returns the files during this iteration
ProcessHostDependency(dependency, order) ==
    /\ pc \in {"build", "host"}
    /\ Len(host) < MaxHost
    /\ dependency.name \notin NamesOf(host)
    /\ host' = Append(host, dependency)
    /\ HostIteration(dependency,
                     GetDependencyBuildfileContent(dependency, system, files, order))
    /\ UNCHANGED <<system, generators_folder, files, direct_build>>

\* Both loops have ended: the aggregate pair is composed and saved
ComposeMainBuildfiles ==
    /\ pc \in {"build", "host"}
    /\ written' = SaveMainBuildfiles(written,
                                     GetMainBuildfileContent(local_repositories),
                                     generators_folder)
    /\ pc' = "done"
    /\ UNCHANGED <<system, generators_folder, files, direct_build, host,
                   local_repositories, warnings, err>>

Next ==
    \/ \E d \in BuildDependencies : ProcessBuildDependency(d)
    \/ \E d \in HostDependencies : \E o \in Orders(files) : ProcessHostDependency(d, o)
    \/ ComposeMainBuildfiles

Spec == Init /\ [][Next]_vars

---------------------------------------------------------------------------
(* What the properties below speak of *)

Done == pc = "done"

\* The dependency's aggregated cpp_info has libs or includedirs
HasLibsOrIncludes(d) == d.libs # <<>> \/ d.includedirs # <<>>

Editable(d) == IsNone(d.package_folder)

\* The path of the per-dependency file of d
FileOf(d) == generators_folder \o <<"/">> \o d.name \o S_BUILD

WrittenPaths == {written[i].path : i \in 1..Len(written)}

\* Host dependency number k got as far as its save (only the last iteration
\* can have raised)
HostSaved(k) ==
    /\ HasLibsOrIncludes(host[k])
    /\ ~(k = Len(host) /\ err = "TypeError")

\* The position in written of the file saved for host dependency number k
HostFileIndex(k) ==
    Len(direct_build) + Cardinality({j \in 1..k : HasLibsOrIncludes(host[j])})

HostFile(k) == written[HostFileIndex(k)]

\* The positions in written of the aggregate pair
IsAggregate(i) ==
    written[i].path \in {MainBuildName(generators_folder), MainBzlName(generators_folder)}
IsBzl(i) == written[i].path = MainBzlName(generators_folder)

\* f is a library file named after lib
IsLibraryFileOf(f, lib) ==
    \E ext \in LibraryExtensions :
        \/ f = lib \o ext
        \/ ext # <<".", "l", "i", "b">> /\ f = LibPrefix \o lib \o ext

\* The (directory, file) pairs of d's existing library directories that hold a
\* library file named after lib
LibraryFilesOf(d, lib) ==
    UNION { { <<d.libdirs[i], f>> : f \in {g \in files[d.libdirs[i]] : IsLibraryFileOf(g, lib)} } :
              i \in {j \in 1..Len(d.libdirs) : d.libdirs[j] \in DOMAIN files} }

\* rel, joined onto d's package_folder with "/", is the path p (backslashes
\* normalised), and is a relative path without backslashes
RelativeTo(rel, d, p) ==
    /\ \A i \in 1..Len(rel) : rel[i] # "\\"
    /\ rel = <<>> \/ rel[1] # "/"
    /\ ReplaceBackslash(Value(d.package_folder)) \o <<"/">> \o rel = ReplaceBackslash(p)

---------------------------------------------------------------------------
(* The claims *)

\* C1 (as claimed): when generate() has returned, every dependency of
\* direct_build and every dependency of host, also one without libs and
\* includedirs, has its file <generators_folder>/<name>/BUILD written.
C1_EveryDependencyHasFile ==
    Done => /\ \A i \in 1..Len(direct_build) : FileOf(direct_build[i]) \in WrittenPaths
            /\ \A k \in 1..Len(host) : FileOf(host[k]) \in WrittenPaths

\* C1 (amended): when generate() has returned, every dependency of
\* direct_build and every host dependency that has libs or includedirs has its
\* file <generators_folder>/<name>/BUILD written, in loop order, and a host
\* dependency with neither libs nor includedirs gets no file: the files written
\* are exactly those and the aggregate pair.
C1_EveryRenderedDependencyHasFile ==
    Done => /\ \A i \in 1..Len(direct_build) : written[i].path = FileOf(direct_build[i])
            /\ \A k \in 1..Len(host) :
                   HasLibsOrIncludes(host[k]) => HostFile(k).path = FileOf(host[k])
            /\ Len(written) = Len(direct_build)
                              + Cardinality({k \in 1..Len(host) : HasLibsOrIncludes(host[k])})
                              + 2

\* C1 witness: a finished run over a build dependency, a host dependency with
\* includedirs and a host dependency without libs and includedirs.
C1_Witness ==
    /\ Done
    /\ Len(direct_build) > 0
    /\ \E k \in 1..Len(host) : HasLibsOrIncludes(host[k])
    /\ \E k \in 1..Len(host) : ~HasLibsOrIncludes(host[k])

\* C2: no per-dependency path is written twice and no two registrations carry
\* the same name, also when a name is both in direct_build and in host.
C2_OneFilePerName ==
    /\ \A i, j \in 1..Len(written) : i # j => written[i].path # written[j].path
    /\ \A i, j \in 1..Len(local_repositories) :
           i # j => local_repositories[i].name # local_repositories[j].name

\* C3: the body of load_conan_dependencies() in the dependencies.bzl written is
\* the registrations of the dependencies whose file was written, one each:
\* those of direct_build in order, then those of host in order, each naming
\* the dependency, its package folder and the file written for it; it is the
\* single statement pass exactly when no per-dependency file was written.
C3_BodyIsRegistrationsInOrder ==
    Done =>
        LET body == written[Len(written)].content.body
            deps == direct_build \o SelectSeq(host, HasLibsOrIncludes)
        IN  /\ IsBzl(Len(written))
            /\ (body = <<PassStatement>>) <=> (Len(written) = 2)
            /\ Len(written) > 2 =>
                /\ Len(body) = Len(written) - 2
                /\ Len(body) = Len(deps)
                /\ \A i \in 1..Len(body) :
                    /\ body[i].stmt = "native.new_local_repository"
                    /\ body[i].name = deps[i].name
                    /\ body[i].path = ReplaceBackslash(Value(deps[i].package_folder))
                    /\ written[i].path = FileOf(deps[i])
                    /\ body[i].build_file = ReplaceBackslash(written[i].path)

\* C3 witness: a finished run that registered a build dependency and a host
\* dependency and skipped another host dependency.
C3_Witness ==
    /\ Done
    /\ Len(direct_build) > 0
    /\ Len(host) = 2
    /\ Len(written[Len(written)].content.body) = 2
    /\ written[Len(written)].content.body[1].name # written[Len(written)].content.body[2].name

\* C4: once an editable package (package_folder None) has been iterated over,
\* generate() has raised the ConanException, and raised it before writing that
\* package's file (every file written belongs to a registered dependency).
C4_EditableRaisesBeforeWriting ==
    (\/ \E i \in 1..Len(direct_build) : Editable(direct_build[i])
     \/ \E k \in 1..Len(host) : Editable(host[k]))
    => /\ pc = "raised"
       /\ err = "ConanException"
       /\ Len(written) = Len(local_repositories)

\* C5 (as claimed): once a library directory was found missing (its warning was
\* issued), generate() has raised, without writing the dependency's file.
C5_MissingLibdirRaises ==
    (\E i \in 1..Len(warnings) : warnings[i].warning = "The library folder doesn't exist")
    => /\ pc = "raised"
       /\ Len(written) = Len(local_repositories)

\* C5 (amended): a missing library directory does not make generate() raise.
\* Every missing directory of libdirs that the scan of a library reaches is
\* reported by a warning and skipped, and the scan goes on; generate() raises
\* only for an editable package.  For a host dependency that is not editable
\* and has libs or includedirs the iteration ends without an exception and
\* with the dependency's file written, and the file imports a library exactly
\* when one of the existing directories of libdirs holds a file that matches
\* its name.
C5_MissingLibdirSkipped ==
    /\ err # "none" => \/ \E i \in 1..Len(direct_build) : Editable(direct_build[i])
                       \/ \E k \in 1..Len(host) : Editable(host[k])
    /\ \A k \in 1..Len(host) : \A n \in 1..Len(host[k].libs) :
         LET lib == host[k].libs[n]
             dirs == host[k].libdirs
             holds(dir) == dir \in DOMAIN files /\ \E f \in files[dir] : MatchName(f) = lib
         IN  /\ (host[k].includedirs = <<>> \/ ~Editable(host[k])) =>
                  \A i \in 1..Len(dirs) :
                      (dirs[i] \notin DOMAIN files /\ \A j \in 1..(i - 1) : ~holds(dirs[j]))
                      => \E w \in 1..Len(warnings) : warnings[w] = NoFolderWarning(dirs[i])
             /\ ~Editable(host[k]) =>
                  ((\E c \in 1..Len(HostFile(k).content.cc_import) :
                       HostFile(k).content.cc_import[c].name = lib \o S_precompiled)
                   <=> \E i \in 1..Len(dirs) : holds(dirs[i]))
    /\ \A k \in 1..Len(host) :
         (~Editable(host[k]) /\ HasLibsOrIncludes(host[k])) =>
            /\ k = Len(host) => err = "none"
            /\ HostFile(k).path = FileOf(host[k])

\* C5 witness: a host dependency whose first library directory is missing and
\* whose library was resolved from the directory after it, its file written.
C5_Witness ==
    \E k \in 1..Len(host) :
        /\ ~Editable(host[k])
        /\ host[k].libs # <<>>
        /\ host[k].libdirs[1] \notin DOMAIN files
        /\ HostFile(k).path = FileOf(host[k])
        /\ HostFile(k).content.cc_import # <<>>
        /\ pc = "host"

\* C6: the file written for a host dependency is the same whatever the order in
\* which os.listdir returns the files and whatever the platform of the machine:
\* every such run renders the content this run wrote.
C6_SameOutputForSameInput ==
    \A k \in 1..Len(host) :
        HostSaved(k) =>
            \A m \in Machines : \A o \in Orders(files) :
                GetDependencyBuildfileContent(host[k], m.system, files, o).content
                    = HostFile(k).content

\* C7: for every library of a host dependency iterated over and every listing
\* order, _get_lib_file_paths returns the path of a library file named after
\* the library (lib or "lib" + lib, with one of the five extensions) in one of
\* the existing library directories, and None exactly when there is no such file.
C7_OnlyLibraryFilesReturned ==
    \A k \in 1..Len(host) : \A n \in 1..Len(host[k].libs) : \A o \in Orders(files) :
        LET lib == host[k].libs[n]
            got == GetLibFilePaths(system, files, o, host[k].libdirs, lib).path
        IN  IF LibraryFilesOf(host[k], lib) = {}
            THEN IsNone(got)
            ELSE /\ ~IsNone(got)
                 /\ \E x \in LibraryFilesOf(host[k], lib) :
                        Value(got) = PathJoin(system, x[1], x[2])

\* C8: every include directory and every library file emitted into a host
\* dependency's file is the location of the original path relative to the
\* dependency's package_folder: no backslash, no leading "/", and joined onto
\* package_folder it is the original path.
C8_EmittedPathsAreRelative ==
    \A k \in 1..Len(host) :
        HostSaved(k) =>
            /\ \A i \in 1..Len(host[k].includedirs) :
                   RelativeTo(HostFile(k).content.includes[i], host[k],
                              host[k].includedirs[i])
            /\ \A c \in 1..Len(HostFile(k).content.cc_import) :
                   \E i \in 1..Len(host[k].libdirs) :
                       /\ host[k].libdirs[i] \in DOMAIN files
                       /\ \E f \in files[host[k].libdirs[i]] :
                              RelativeTo(HostFile(k).content.cc_import[c].file, host[k],
                                         PathJoin(system, host[k].libdirs[i], f))

\* C9: the aggregate pair (the empty BUILD, then dependencies.bzl) is written
\* after every per-dependency file and only by a run in which no iteration
\* raised; a run that raised wrote no dependencies.bzl, and every build_file
\* that dependencies.bzl names is a file written before it in the same run.
C9_AggregateWrittenLast ==
    /\ \A i, j \in 1..Len(written) : (i < j /\ IsAggregate(i)) => IsAggregate(j)
    /\ (\E i \in 1..Len(written) : IsAggregate(i)) <=> Done
    /\ Done => err = "none"
    /\ err # "none" => pc = "raised"
    /\ \A j \in 1..Len(written) :
         IsBzl(j) =>
            /\ j > 1
            /\ written[j - 1].path = MainBuildName(generators_folder)
            /\ written[j - 1].content = [rule |-> "empty"]
            /\ \A s \in 1..Len(written[j].content.body) :
                 written[j].content.body[s] # PassStatement =>
                    \E i \in 1..(j - 1) :
                        /\ ~IsAggregate(i)
                        /\ ReplaceBackslash(written[i].path)
                               = written[j].content.body[s].build_file

\* C9 witness: a finished run whose dependencies.bzl registers two dependencies.
C9_Witness ==
    /\ Done
    /\ Len(local_repositories) = 2
    /\ Len(written) = 4

\* C10: in the file written for a host dependency, the deps of the cc_library
\* are one ":<lib>_precompiled" for each cc_import rule of the file, then one
\* "@<name>" for each dependency of the package, also when the file has no
\* cc_import rule.
C10_DepsListImportsAndRequires ==
    \A k \in 1..Len(host) :
        HostSaved(k) =>
            HostFile(k).content.deps
                = [c \in 1..Len(HostFile(k).content.cc_import) |->
                      <<":">> \o HostFile(k).content.cc_import[c].name]
                  \o [r \in 1..Len(host[k].requires) |-> <<"@">> \o host[k].requires[r]]

===========================================================================
